---------------------------- MODULE Spec2Model ----------------------------
(***************************************************************************)
(* Peer-to-peer remote signing of ovikreta-igazolas.                       *)
(*                                                                         *)
(*   host    QRSignatureModal (src/unnamed/part_002, 861-1002), mounted by *)
(*           ParentalAbsenceForm (src/src/main.jsx, 199-963)               *)
(*   client  MobileSignPage (src/unnamed/part_002, 699-847), mounted by    *)
(*           App (src/src/main.jsx, 7-28)                                  *)
(*                                                                         *)
(* Spec is the whole system; SpecUrl the URL's round trip for every id;    *)
(* SpecClient the signing page's life (any entry hash, hash changes)       *)
(* against one open host endpoint; SpecHostFair the host alone with its    *)
(* teardown timer sure to fire; SpecPad a SignaturePad (src/unnamed/       *)
(* part_002, 1016-1154) under the pointer and window resizes; SpecPrintFair*)
(* the form's fields and handlePrint (src/src/main.jsx, 303-498) with      *)
(* every awaited promise sure to settle.                                   *)
(*                                                                         *)
(* Every browser task (a PeerJS event handler, a click handler, a timer    *)
(* callback, a React commit) is one action.  JavaScript strings that the   *)
(* code takes apart (URLs, hashes, peer ids) are sequences of one-character*)
(* strings; opaque values (images, messages) are strings.                  *)
(***************************************************************************)
EXTENDS Naturals, Sequences, FiniteSets

\* ------------------------------------------------------------- bounds
\* Longest peer id the signaling server hands out.
MaxIdLen == 2
\* Inbound connections one host endpoint accepts.
MaxConns == 2
\* Well-formed signature payloads one mounted modal handles.
MaxSig == 2
\* Peer objects the host creates over a run (one per run of the effect).
MaxPeers == 2
\* Curve segments one canvas bitmap holds.
MaxInk == 3
\* Shake timers of refused downloads pending at once.
MaxShake == 2

\* ------------------------------------------------------ JavaScript values
Null == "null"
Undefined == "undefined"
\* An absent optional string (useState(null) of a value kept as a sequence).
None == <<>>
Some(v) == <<v>>

\* JavaScript truthiness of a string-or-null value.
Truthy(v) == v \notin {Null, Undefined, ""}

SeqsUpTo(S, n) == UNION {[1..k -> S] : k \in 0..n}

\* Characters of the ids the signaling server generates (URL-safe: it
\* hands out UUIDs, letters, digits and "-").
IdChars == {"a", "7", "-"}
\* Every id up to the bound, for the URL's round trip.
SessionIds == SeqsUpTo(IdChars, MaxIdLen) \ {<<>>}
\* The ids the server hands out in the runs of the whole system.
ServerIds == {<<"a">>, <<"7", "-">>, <<"-", "a">>}

\* window.location.origin + window.location.pathname of the host page.
Locations == {<<"h", "/">>, <<"h", "/", "s", "/">>}

Images == {"data:image/png;base64,AAA", "data:image/png;base64,BBB"}

\* ------------------------------------------------------------- the URL
SignPrefix == <<"#", "/", "s", "i", "g", "n", "/">>
LineTerminators == {"\n", "\r"}

\* `${origin}${pathname}#/sign/${peerId}`, or null while peerId is null.
signingUrl(loc, pid) ==
    IF pid = None THEN None ELSE Some(loc \o SignPrefix \o pid[1])

FirstIndex(s, ch) ==
    IF \E i \in 1..Len(s) : s[i] = ch
    THEN CHOOSE i \in 1..Len(s) : s[i] = ch /\ \A j \in 1..(i - 1) : s[j] # ch
    ELSE 0

\* window.location.hash of a URL: from the first "#" on, "" when the
\* fragment is absent or empty.
HashOf(url) ==
    LET i == FirstIndex(url, "#")
    IN  IF i = 0 \/ i = Len(url) THEN <<>> ELSE SubSeq(url, i, Len(url))

StartsWith(s, p) == Len(s) >= Len(p) /\ SubSeq(s, 1, Len(p)) = p

\* \w of the regular expression, among the characters of the model.
WordChars == {"a", "7", "_", "s", "i", "g", "n", "h"}

\* parseHash with /^#\/sign\/(\w+)$/ for /^#\/sign\/(.+)$/.
parseHashWordOnly(hash) ==
    LET rest == SubSeq(hash, Len(SignPrefix) + 1, Len(hash))
    IN  IF /\ StartsWith(hash, SignPrefix)
           /\ Len(rest) >= 1
           /\ \A i \in 1..Len(rest) : rest[i] \in WordChars
        THEN [page |-> "sign", peerId |-> Some(rest)]
        ELSE [page |-> "main", peerId |-> None]

\* hash.match(/^#\/sign\/(.+)$/): the prefix, then one or more characters,
\* none a line terminator, up to the end of the input; match[1] is the id.
parseHash(hash) ==
    LET rest == SubSeq(hash, Len(SignPrefix) + 1, Len(hash))
    IN  IF /\ StartsWith(hash, SignPrefix)
           /\ Len(rest) >= 1
           /\ \A i \in 1..Len(rest) : rest[i] \notin LineTerminators
        THEN [page |-> "sign", peerId |-> Some(rest)]
        ELSE [page |-> "main", peerId |-> None]

\* window.location.hash values the phone's tab is opened with or moved to:
\* none, the sign route without an id, the ids "a" and "7", and "a/7".
EntryHashes ==
    {<<>>, SignPrefix, SignPrefix \o <<"a">>, SignPrefix \o <<"7">>,
     SignPrefix \o <<"a", "/", "7">>}

\* ------------------------------------------------------- wire messages
\* A value received on a data connection: null/undefined (defined = FALSE)
\* or an object with its type and dataUrl properties (Undefined when absent).
NullData == [defined |-> FALSE, type |-> Undefined, dataUrl |-> Undefined]
Obj(t, d) == [defined |-> TRUE, type |-> t, dataUrl |-> d]
Payloads ==
    {NullData, Obj("ping", Undefined), Obj(Undefined, Undefined)} \cup
    {Obj(t, "data:image/png;base64,AAA") : t \in {Undefined, "ping"}} \cup
    {Obj("signature", d) : d \in {Undefined, ""} \cup Images}

\* { type: 'signature', dataUrl: signatureDataUrl }
\* (with the properties named kind and image, the host reads both as
\* undefined)
SignaturePayloadKindImage(img) == Obj(Undefined, Undefined)

SignaturePayload(img) == Obj("signature", img)

\* data && data.type === 'signature' && data.dataUrl
IsSignatureTypeOnly(data) == data.defined /\ data.type = "signature"

IsSignature(data) ==
    data.defined /\ data.type = "signature" /\ Truthy(data.dataUrl)

\* -------------------------------------------------------------- state
VARIABLES
    \* ParentalAbsenceForm
    showQRModal,      \* useState(false): the modal is to be rendered
    drawnSignature,   \* useState(saved.drawnSignature || null)
    \* QRSignatureModal
    mounted,          \* an instance of the modal is mounted
    status,           \* connecting | waiting | connected | received
    peerId,           \* None or Some(id)
    error,            \* Null or the message
    sigCalls,         \* invocations of onSignature by the mounted instance
    \* the host's Peer object (peerRef.current) and what hangs on it
    peerState,        \* none | registering | open | disconnected | destroyed
    conns,            \* origins of its inbound connections, in arrival order
    destroyCalls,     \* peer.destroy() calls made on it by the component
    timers,           \* pending setTimeout(() => peer.destroy(), 500) on it
    staleTimers,      \* such timers still pending on earlier Peer objects
    peersCreated,     \* new Peer() calls of the host so far
    \* App / MobileSignPage
    hash,             \* window.location.hash of the phone's tab, None while
                      \* no tab is open
    route,            \* useState(parseHash())
    cStatus,          \* connecting | ready | sending | sent | error
    signatureDataUrl, \* Null or the image the pad reported
    cPeerState,       \* none | registering | open | destroyed
    connRef,          \* connRef.current: null | dialing | open | closed
    cTimers,          \* pending setTimeout(() => setStatus('sent'), 300)
    cEnded,           \* the mounted page has shown sending, sent or error
    \* the data connection between the two
    cLink,            \* index in conns of the client's connection, 0 if none
    wire,             \* messages the client sent that the host has yet to get
    \* SignaturePad
    padInk,           \* curve segments on the canvas bitmap
    isDrawing,        \* useState(false)
    hasStrokes,       \* useState(false)
    points,           \* pointsRef.current.length
    padReported,      \* the argument of the last onSignatureChange call
    \* ParentalAbsenceForm: the fields, validation and PDF generation
    childName,
    fromDate,
    toDate,
    selectedSignature,    \* Null | a gallery index | "custom" | "drawn"
    customSignatureName,
    isGenerating,         \* useState(false)
    showToast,            \* useState(false)
    hasAttemptedSubmit,   \* useState(false)
    shakeButton,          \* useState(false)
    shakeTimers,          \* pending setTimeout(() => setShakeButton(false), 600)
    fontCache,            \* fontCacheRef.current is set
    pdfSaved,             \* doc.save('szuloi-igazolas.pdf') has been called
    printStage,           \* what the running handlePrint awaits, or "idle"
    printSig              \* selectedSignature as the running handlePrint sees it

formVars == <<showQRModal, drawnSignature>>
modalVars == <<mounted, status, peerId, error, sigCalls>>
peerVars == <<peerState, conns, destroyCalls, timers, staleTimers, peersCreated>>
routeVars == <<hash, route>>
clientVars == <<routeVars, cStatus, signatureDataUrl, cPeerState, connRef,
                cTimers, cEnded>>
linkVars == <<cLink, wire>>
padVars == <<padInk, isDrawing, hasStrokes, points, padReported>>
fieldVars == <<childName, fromDate, toDate, selectedSignature,
               customSignatureName>>
printVars == <<fieldVars, isGenerating, showToast, hasAttemptedSubmit,
               shakeButton, shakeTimers, fontCache, pdfSaved, printStage,
               printSig>>
sessionVars == <<formVars, modalVars, peerVars, clientVars, linkVars>>
vars == <<formVars, modalVars, peerVars, clientVars, linkVars, padVars,
          printVars>>

\* What onSignatureChange was last called with: nothing yet, null, or
\* canvas.toDataURL('image/png') of a bitmap with ink curve segments.
NotReported == [called |-> FALSE, image |-> FALSE, ink |-> 0]
ReportedNull == [called |-> TRUE, image |-> FALSE, ink |-> 0]
toDataURL(ink) == [called |-> TRUE, image |-> TRUE, ink |-> ink]

\* Values of the form's text and date inputs, and of selectedSignature.
Names == {"", " ", "Anna"}
Dates == {"", "2026-01-05"}
Selections == {Null, "0", "custom", "drawn"}

\* String.prototype.trim().
trim(str) == IF str = " " THEN "" ELSE str

\* A SignaturePad after its mount: the resize effect has sized the canvas.
InitPad ==
    /\ padInk = 0
    /\ isDrawing = FALSE
    /\ hasStrokes = FALSE
    /\ points = 0
    /\ padReported = NotReported

\* The form after its mount with no saved session and no cookie.
InitForm ==
    /\ childName = ""
    /\ fromDate = ""
    /\ toDate = ""
    /\ selectedSignature = Null
    /\ customSignatureName = ""
    /\ isGenerating = FALSE
    /\ showToast = FALSE
    /\ hasAttemptedSubmit = FALSE
    /\ shakeButton = FALSE
    /\ shakeTimers = 0
    /\ fontCache = FALSE
    /\ pdfSaved = FALSE
    /\ printStage = "idle"
    /\ printSig = Null

\* setError('Kapcsolodasi hiba. Kerlek probald ujra.') (accents dropped)
ErrorMessage == "Kapcsolodasi hiba. Kerlek probald ujra."
HostStatuses == {"connecting", "waiting", "connected", "received"}
ClientStatuses == {"connecting", "ready", "sending", "sent", "error"}

TypeOK ==
    /\ showQRModal \in BOOLEAN
    /\ drawnSignature \in Images \cup {Null}
    /\ mounted \in BOOLEAN
    /\ status \in HostStatuses
    /\ peerId \in {None} \cup {Some(id) : id \in SessionIds}
    /\ error \in {Null, ErrorMessage}
    /\ sigCalls \in 0..MaxSig
    /\ peerState \in {"none", "registering", "open", "disconnected", "destroyed"}
    /\ conns \in SeqsUpTo({"client", "other"}, MaxConns)
    /\ destroyCalls \in Nat
    /\ timers \in 0..MaxSig
    /\ staleTimers \in Nat
    /\ peersCreated \in 0..MaxPeers
    /\ hash \in {None} \cup {Some(h) : h \in EntryHashes}
                 \cup {Some(SignPrefix \o id) : id \in SessionIds}
    /\ route \in {[page |-> "main", peerId |-> None]} \cup
                 {[page |-> "sign", peerId |-> Some(id)] : id \in SessionIds} \cup
                 {parseHash(h) : h \in EntryHashes}
    /\ cStatus \in ClientStatuses
    /\ signatureDataUrl \in Images \cup {Null}
    /\ cPeerState \in {"none", "registering", "open", "destroyed"}
    /\ connRef \in {Null, "dialing", "open", "closed"}
    /\ cTimers \in 0..1
    /\ cEnded \in BOOLEAN
    /\ cLink \in 0..MaxConns
    /\ wire \in SeqsUpTo({SignaturePayload(i) : i \in Images}, 1)
    /\ padInk \in 0..MaxInk
    /\ isDrawing \in BOOLEAN
    /\ hasStrokes \in BOOLEAN
    /\ points \in 0..(MaxInk + 1)
    /\ padReported \in {NotReported, ReportedNull} \cup
                       {toDataURL(k) : k \in 0..MaxInk}
    /\ childName \in Names
    /\ fromDate \in Dates
    /\ toDate \in Dates
    /\ selectedSignature \in Selections
    /\ customSignatureName \in Names
    /\ isGenerating \in BOOLEAN
    /\ showToast \in BOOLEAN
    /\ hasAttemptedSubmit \in BOOLEAN
    /\ shakeButton \in BOOLEAN
    /\ shakeTimers \in 0..MaxShake
    /\ fontCache \in BOOLEAN
    /\ pdfSaved \in BOOLEAN
    /\ printStage \in {"idle", "fonts", "signature", "image"}
    /\ printSig \in Selections

Init ==
    /\ showQRModal = FALSE
    /\ drawnSignature \in Images \cup {Null}
    /\ mounted = FALSE
    /\ status = "connecting"
    /\ peerId = None
    /\ error = Null
    /\ sigCalls = 0
    /\ peerState = "none"
    /\ conns = <<>>
    /\ destroyCalls = 0
    /\ timers = 0
    /\ staleTimers = 0
    /\ peersCreated = 0
    /\ hash = None
    /\ route = [page |-> "main", peerId |-> None]
    /\ cStatus = "connecting"
    /\ signatureDataUrl = Null
    /\ cPeerState = "none"
    /\ connRef = Null
    /\ cTimers = 0
    /\ cEnded = FALSE
    /\ cLink = 0
    /\ wire = <<>>
    /\ InitPad
    /\ InitForm

\* --------------------------------------------------- the host's endpoint
\* What peer.destroy() does to the transport: the endpoint is unregistered
\* and every connection on it is closed, so no event reaches it afterwards.
\* PeerJS returns at once when the peer is already destroyed.
EndpointGone ==
    /\ peerState' = "destroyed"
    /\ conns' = <<>>
    /\ cLink' = 0
    /\ wire' = <<>>

\* peer.destroy() called by the component on peerRef.current's Peer.
PeerDestroy ==
    /\ EndpointGone
    /\ destroyCalls' = destroyCalls + 1

\* The body of the effect: const peer = new Peer(); the handlers are
\* registered on it.  Timers set for the Peer it replaces stay pending.
NewPeer ==
    /\ peerState' = "registering"
    /\ conns' = <<>>
    /\ cLink' = 0
    /\ wire' = <<>>
    /\ destroyCalls' = 0
    /\ timers' = 0
    /\ staleTimers' = staleTimers + timers
    /\ peersCreated' = peersCreated + 1

\* ------------------------------------------------- ParentalAbsenceForm
\* onClick={() => setShowQRModal(true)}: the button is rendered while no
\* drawn signature is kept.  The modal mounts with its initial state and
\* its effect runs.
OpenQRModal ==
    /\ ~mounted
    /\ ~showQRModal
    /\ drawnSignature = Null
    /\ peersCreated < MaxPeers
    /\ showQRModal' = TRUE
    /\ mounted' = TRUE
    /\ status' = "connecting"
    /\ peerId' = None
    /\ error' = Null
    /\ sigCalls' = 0
    /\ NewPeer
    /\ UNCHANGED <<drawnSignature, clientVars>>
    /\ UNCHANGED <<padVars, printVars>>

\* onClick={() => setDrawnSignature(null)} ("Ujra"), behind the modal's
\* backdrop while the modal is open.
RedoSignature ==
    /\ ~mounted
    /\ drawnSignature # Null
    /\ drawnSignature' = Null
    /\ UNCHANGED <<showQRModal, modalVars, peerVars, clientVars, linkVars>>
    /\ UNCHANGED <<padVars, printVars>>

\* A re-render of the form while the modal is open (setShakeButton(false)
\* 600 ms after a refused download, the toast's timer, a typed character):
\* onSignature is a new function, so the modal's effect, whose dependency
\* it is, is cleaned up and run again.  The modal's state is kept.
ParentRerenderResetsStatus ==
    /\ mounted
    /\ showQRModal
    /\ peersCreated < MaxPeers
    /\ NewPeer
    /\ status' = "connecting"
    /\ UNCHANGED <<formVars, mounted, peerId, error, sigCalls, clientVars>>
    /\ UNCHANGED <<padVars, printVars>>

ParentRerender ==
    /\ mounted
    /\ showQRModal
    /\ peersCreated < MaxPeers
    /\ NewPeer
    /\ UNCHANGED <<formVars, modalVars, clientVars>>
    /\ UNCHANGED <<padVars, printVars>>

\* onClose={() => setShowQRModal(false)} with the effect returning no
\* cleanup: the modal unmounts and its Peer lives on.
CloseModalKeepsPeer ==
    /\ mounted
    /\ showQRModal' = FALSE
    /\ mounted' = FALSE
    /\ UNCHANGED <<drawnSignature, status, peerId, error, sigCalls, peerVars,
                   clientVars, linkVars>>
    /\ UNCHANGED <<padVars, printVars>>

\* onClose={() => setShowQRModal(false)} from the backdrop or the close
\* button: a click, so React unmounts the modal and runs the effect's
\* cleanup before the handler's task ends.
CloseModal ==
    /\ mounted
    /\ showQRModal' = FALSE
    /\ mounted' = FALSE
    /\ PeerDestroy
    /\ UNCHANGED <<drawnSignature, status, peerId, error, sigCalls,
                   timers, staleTimers, peersCreated, clientVars>>
    /\ UNCHANGED <<padVars, printVars>>

\* The commit of the render that follows onSignature's
\* setShowQRModal(false): the modal unmounts, the cleanup runs.
HostUnmount ==
    /\ mounted
    /\ ~showQRModal
    /\ mounted' = FALSE
    /\ PeerDestroy
    /\ UNCHANGED <<formVars, status, peerId, error, sigCalls,
                   timers, staleTimers, peersCreated, clientVars>>
    /\ UNCHANGED <<padVars, printVars>>

\* ---------------------------------------------------- QRSignatureModal
\* onSignature={(dataUrl) => { setDrawnSignature(dataUrl); }} without
\* setShowQRModal(false).
onSignatureKeepsModal(dataUrl) ==
    /\ drawnSignature' = dataUrl
    /\ showQRModal' = showQRModal

\* onSignature={(dataUrl) => { setDrawnSignature(dataUrl);
\*                             setShowQRModal(false); }}
onSignature(dataUrl) ==
    /\ drawnSignature' = dataUrl
    /\ showQRModal' = FALSE

\* peer.on('open', (id) => { setPeerId(id); setStatus('waiting'); }).
\* The server hands out an id no other endpoint in use has.
HostPeerOnOpen(id) ==
    /\ peerState = "registering"
    /\ Some(id) \notin {peerId, route.peerId}
    /\ peerState' = "open"
    /\ peerId' = Some(id)
    /\ status' = "waiting"
    /\ UNCHANGED <<formVars, mounted, error, sigCalls, conns, destroyCalls,
                   timers, staleTimers, peersCreated, clientVars, linkVars>>
    /\ UNCHANGED <<padVars, printVars>>

\* peer.on('connection', (conn) => { setStatus('connected');
\* conn.on('data', ...); ... }): an inbound connection, from the signing
\* page that dialled this endpoint's id or from any other remote peer.
HostPeerOnConnection(origin) ==
    /\ peerState = "open"
    /\ Len(conns) < MaxConns
    /\ IF origin = "client"
       THEN /\ connRef = "dialing"
            /\ cLink = 0
            /\ route.peerId = peerId
            /\ cLink' = Len(conns) + 1
       ELSE cLink' = cLink
    /\ conns' = Append(conns, origin)
    /\ status' = "connected"
    /\ UNCHANGED <<formVars, mounted, peerId, error, sigCalls, peerState,
                   destroyCalls, timers, staleTimers, peersCreated,
                   clientVars, wire>>
    /\ UNCHANGED <<padVars, printVars>>

\* conn.on('data', ...) without setTimeout(() => { peer.destroy(); }, 500).
HostConnOnDataNoTimer(i, data) ==
    /\ peerState \in {"open", "disconnected"}
    /\ i \in DOMAIN conns
    /\ IF conns[i] = "client"
       THEN /\ cLink = i
            /\ wire # <<>>
            /\ data = Head(wire)
            /\ wire' = Tail(wire)
       ELSE wire' = wire
    /\ IF IsSignature(data)
       THEN /\ sigCalls < MaxSig
            /\ status' = "received"
            /\ onSignature(data.dataUrl)
            /\ sigCalls' = sigCalls + 1
       ELSE UNCHANGED <<status, formVars, sigCalls>>
    /\ UNCHANGED <<mounted, peerId, error, peerState, conns, destroyCalls,
                   timers, staleTimers, peersCreated, clientVars, cLink>>
    /\ UNCHANGED <<padVars, printVars>>

\* conn.on('data', (data) => { if (data && data.type === 'signature' &&
\* data.dataUrl) { setStatus('received'); onSignature(data.dataUrl);
\* setTimeout(() => { peer.destroy(); }, 500); } }) on the i-th inbound
\* connection.  The signing page's connection delivers what the page sent,
\* in order; another remote peer may send anything.
HostConnOnData(i, data) ==
    /\ peerState \in {"open", "disconnected"}
    /\ i \in DOMAIN conns
    /\ IF conns[i] = "client"
       THEN /\ cLink = i
            /\ wire # <<>>
            /\ data = Head(wire)
            /\ wire' = Tail(wire)
       ELSE wire' = wire
    /\ IF IsSignature(data)
       THEN /\ sigCalls < MaxSig
            /\ status' = "received"
            /\ onSignature(data.dataUrl)
            /\ sigCalls' = sigCalls + 1
            /\ timers' = timers + 1
       ELSE UNCHANGED <<status, formVars, sigCalls, timers>>
    /\ UNCHANGED <<mounted, peerId, error, peerState, conns, destroyCalls,
                   staleTimers, peersCreated, clientVars, cLink>>
    /\ UNCHANGED <<padVars, printVars>>

\* peer.on('error', (err) => { console.error(...); setError(...); }).
\* What became of the endpoint is PeerJS's doing: an error before the
\* endpoint opened aborts it (destroyed); later ones destroy it, cut it off
\* the signaling server with its connections kept (disconnected), or leave
\* it as it is.
HostPeerOnError(after) ==
    /\ peerState \in {"registering", "open", "disconnected"}
    /\ after \in {"destroyed", "disconnected", peerState}
    /\ peerState = "registering" => after = "destroyed"
    /\ error' = ErrorMessage
    /\ IF after = "destroyed"
       THEN EndpointGone
       ELSE peerState' = after /\ UNCHANGED <<conns, linkVars>>
    /\ UNCHANGED <<formVars, mounted, status, peerId, sigCalls, destroyCalls,
                   timers, staleTimers, peersCreated, clientVars>>
    /\ UNCHANGED <<padVars, printVars>>

\* setTimeout(() => { peer.destroy(); }, 500) fires for the current Peer.
DestroyTimerFires ==
    /\ timers > 0
    /\ timers' = timers - 1
    /\ PeerDestroy
    /\ UNCHANGED <<formVars, modalVars, staleTimers, peersCreated, clientVars>>
    /\ UNCHANGED <<padVars, printVars>>

\* The same timer, set for a Peer the effect has since replaced.
StaleTimerFires ==
    /\ staleTimers > 0
    /\ staleTimers' = staleTimers - 1
    /\ UNCHANGED <<formVars, modalVars, peerState, conns, destroyCalls, timers,
                   peersCreated, clientVars, linkVars>>
    /\ UNCHANGED <<padVars, printVars>>

\* ------------------------------------------------ App / MobileSignPage
\* A MobileSignPage mounts: useState('connecting'), useState(null),
\* useRef(null), and its effect runs const peer = new Peer().
MobileSignPageMount ==
    /\ cStatus' = "connecting"
    /\ signatureDataUrl' = Null
    /\ connRef' = Null
    /\ cPeerState' = "registering"
    /\ cTimers' = 0
    /\ cEnded' = FALSE

\* What peer.destroy() of the page's Peer does to its connection: the
\* handle in connRef is closed and nothing more travels on it.
ClientConnsGone ==
    /\ connRef' = IF connRef \in {"dialing", "open"} THEN "closed" ELSE connRef
    /\ cLink' = 0
    /\ wire' = <<>>

\* return () => { peer.destroy(); } with the cleanup left empty.
ClientCleanupNoDestroy ==
    UNCHANGED <<cPeerState, connRef, cLink, wire>>

\* return () => { peer.destroy(); }: the effect's cleanup.
ClientCleanup ==
    /\ cPeerState' = "destroyed"
    /\ ClientConnsGone

\* The phone opens a signing URL the host has shown (the one on screen, or
\* one scanned earlier): useState(parseHash()) sets the route, and a sign
\* route mounts MobileSignPage, whose effect creates its Peer.
ClientOpenUrl(loc) ==
    /\ cPeerState = "none"
    /\ hash = None
    /\ route.page = "main"
    /\ peerId # None
    /\ hash' = Some(HashOf(signingUrl(loc, peerId)[1]))
    /\ route' = parseHash(hash'[1])
    /\ IF route'.page = "sign"
       THEN MobileSignPageMount
       ELSE UNCHANGED <<cStatus, signatureDataUrl, connRef, cPeerState,
                        cTimers, cEnded>>
    /\ UNCHANGED <<formVars, modalVars, peerVars, linkVars>>
    /\ UNCHANGED <<padVars, printVars>>

\* The phone opens the application at any URL (a typed or shortened one,
\* a link cut off by a messenger, the plain address): App's
\* useState(parseHash()) reads its hash.
ClientOpen(h) ==
    /\ hash = None
    /\ hash' = Some(h)
    /\ route' = parseHash(h)
    /\ IF route'.page = "sign"
       THEN MobileSignPageMount
       ELSE UNCHANGED <<cStatus, signatureDataUrl, connRef, cPeerState,
                        cTimers, cEnded>>
    /\ UNCHANGED <<formVars, modalVars, peerVars, linkVars>>
    /\ UNCHANGED <<padVars, printVars>>

\* window's 'hashchange': const onHash = () => setRoute(parseHash()), and
\* the render that follows.  Between two sign routes the page stays
\* mounted with its state and, targetPeerId being the effect's dependency,
\* the cleanup runs and the effect runs again; a route that is no sign
\* route unmounts the page (its pending timers then set the state of an
\* unmounted component, which does nothing); a sign route after another
\* page mounts a new one.
ClientHashChange(h) ==
    /\ hash # None
    /\ Some(h) # hash
    /\ hash' = Some(h)
    /\ route' = parseHash(h)
    /\ CASE route.page = "sign" /\ route'.page = "sign" /\ route'.peerId # route.peerId ->
              /\ ClientConnsGone
              /\ cPeerState' = "registering"
              /\ UNCHANGED <<cStatus, signatureDataUrl, cTimers, cEnded>>
         [] route.page = "sign" /\ route'.page = "main" ->
              /\ ClientCleanup
              /\ cTimers' = 0
              /\ UNCHANGED <<cStatus, signatureDataUrl, cEnded>>
         [] route.page = "main" /\ route'.page = "sign" ->
              /\ MobileSignPageMount
              /\ UNCHANGED linkVars
         [] OTHER ->
              UNCHANGED <<cStatus, signatureDataUrl, cPeerState, connRef,
                          cTimers, cEnded, linkVars>>
    /\ UNCHANGED <<formVars, modalVars, peerVars>>
    /\ UNCHANGED <<padVars, printVars>>

\* peer.on('open', () => { const conn = peer.connect(targetPeerId,
\* { reliable: true }); connRef.current = conn; conn.on(...) }) with
\* setStatus('ready') already here.
ClientPeerOnOpenReady ==
    /\ cPeerState = "registering"
    /\ cPeerState' = "open"
    /\ connRef' = "dialing"
    /\ cStatus' = "ready"
    /\ UNCHANGED <<formVars, modalVars, peerVars, routeVars,
                   signatureDataUrl, cTimers, cEnded, linkVars>>
    /\ UNCHANGED <<padVars, printVars>>

\* peer.on('open', () => { const conn = peer.connect(targetPeerId,
\* { reliable: true }); connRef.current = conn; conn.on(...) })
ClientPeerOnOpen ==
    /\ cPeerState = "registering"
    /\ cPeerState' = "open"
    /\ connRef' = "dialing"
    /\ UNCHANGED <<formVars, modalVars, peerVars, routeVars, cStatus,
                   signatureDataUrl, cTimers, cEnded, linkVars>>
    /\ UNCHANGED <<padVars, printVars>>

\* conn.on('open', () => { setStatus('ready'); }): the host's endpoint
\* has taken the connection.
ClientConnOnOpen ==
    /\ connRef = "dialing"
    /\ cLink > 0
    /\ connRef' = "open"
    /\ cStatus' = "ready"
    /\ UNCHANGED <<formVars, modalVars, peerVars, routeVars, signatureDataUrl,
                   cPeerState, cTimers, cEnded, linkVars>>
    /\ UNCHANGED <<padVars, printVars>>

\* conn.on('error', (err) => { console.error(...); setStatus('error'); })
ClientConnOnError(closes) ==
    /\ connRef \in {"dialing", "open"}
    /\ cStatus' = "error"
    /\ cEnded' = TRUE
    /\ IF closes
       THEN connRef' = "closed" /\ cLink' = 0 /\ wire' = <<>>
       ELSE UNCHANGED <<connRef, linkVars>>
    /\ UNCHANGED <<formVars, modalVars, peerVars, routeVars, signatureDataUrl,
                   cPeerState, cTimers>>
    /\ UNCHANGED <<padVars, printVars>>

\* conn.on('close', () => { /* Desktop closed */ }): the host's end of the
\* connection is gone.
ClientConnOnClose ==
    /\ connRef = "open"
    /\ cLink = 0
    /\ connRef' = "closed"
    /\ UNCHANGED <<formVars, modalVars, peerVars, routeVars, cStatus,
                   signatureDataUrl, cPeerState, cTimers, cEnded, linkVars>>
    /\ UNCHANGED <<padVars, printVars>>

\* peer.on('error', (err) => { console.error(...); setStatus('error'); }):
\* registration failed, or the dialled id is not registered, or the
\* signaling connection broke.  An error before the endpoint opened
\* destroys it.
ClientPeerOnError(fatal) ==
    /\ cPeerState \in {"registering", "open"}
    /\ cPeerState = "registering" => fatal
    /\ cStatus' = "error"
    /\ cEnded' = TRUE
    /\ IF fatal
       THEN /\ cPeerState' = "destroyed"
            /\ connRef' = IF connRef \in {"dialing", "open"} THEN "closed" ELSE connRef
            /\ cLink' = 0
            /\ wire' = <<>>
       ELSE UNCHANGED <<cPeerState, connRef, linkVars>>
    /\ UNCHANGED <<formVars, modalVars, peerVars, routeVars, signatureDataUrl,
                   cTimers>>
    /\ UNCHANGED <<padVars, printVars>>

\* <SignaturePad onSignatureChange={setSignatureDataUrl} /> rendered in
\* every status.
PadChangeAnyStatus(v) ==
    /\ route.page = "sign"
    /\ signatureDataUrl' = v
    /\ UNCHANGED <<formVars, modalVars, peerVars, routeVars, cStatus, cPeerState,
                   connRef, cTimers, cEnded, linkVars>>
    /\ UNCHANGED <<padVars, printVars>>

\* <SignaturePad onSignatureChange={setSignatureDataUrl} />, rendered while
\* status is ready or sending: a finished stroke reports an image, the
\* pad's clear button reports null.
PadChange(v) ==
    /\ route.page = "sign"
    /\ cStatus \in {"ready", "sending"}
    /\ signatureDataUrl' = v
    /\ UNCHANGED <<formVars, modalVars, peerVars, routeVars, cStatus, cPeerState,
                   connRef, cTimers, cEnded, linkVars>>
    /\ UNCHANGED <<padVars, printVars>>

\* The submit button (disabled={!signatureDataUrl || status === 'sending'})
\* calls sendSignature: if (!signatureDataUrl || !connRef.current) return;
\* setStatus('sending'); connRef.current.send({...});
\* setTimeout(() => setStatus('sent'), 300).  PeerJS's send on a connection
\* that is not open emits 'error' on it instead of sending.
SendSignature ==
    /\ route.page = "sign"
    /\ cStatus = "ready"
    /\ Truthy(signatureDataUrl)
    /\ connRef # Null
    /\ cTimers < 1
    /\ IF connRef = "open"
       THEN /\ cStatus' = "sending"
            /\ wire' = IF cLink > 0
                       THEN Append(wire, SignaturePayload(signatureDataUrl))
                       ELSE wire
       ELSE /\ cStatus' = "error"
            /\ wire' = wire
    /\ cTimers' = cTimers + 1
    /\ cEnded' = TRUE
    /\ UNCHANGED <<formVars, modalVars, peerVars, routeVars, signatureDataUrl,
                   cPeerState, connRef, cLink>>
    /\ UNCHANGED <<padVars, printVars>>

\* setTimeout(() => setStatus('sent'), 300) fires.
SentTimerFires ==
    /\ cTimers > 0
    /\ cTimers' = cTimers - 1
    /\ cStatus' = "sent"
    /\ cEnded' = TRUE
    /\ UNCHANGED <<formVars, modalVars, peerVars, routeVars, signatureDataUrl,
                   cPeerState, connRef, linkVars>>
    /\ UNCHANGED <<padVars, printVars>>

\* ------------------------------------------------------- SignaturePad
\* onMouseDown / onTouchStart: setIsDrawing(true); lastPointRef.current =
\* pos; pointsRef.current = [pos].  Nothing is painted.
startStroke ==
    /\ isDrawing' = TRUE
    /\ points' = 1
    /\ UNCHANGED <<padInk, hasStrokes, padReported, sessionVars, printVars>>

\* onMouseMove / onTouchMove while isDrawing: one curve segment from the
\* last point is stroked and the point is pushed.  (Without isDrawing the
\* handler returns at once.)
draw ==
    /\ isDrawing
    /\ padInk < MaxInk
    /\ points <= MaxInk
    /\ padInk' = padInk + 1
    /\ points' = points + 1
    /\ UNCHANGED <<isDrawing, hasStrokes, padReported, sessionVars, printVars>>

\* onMouseUp / onMouseLeave / onTouchEnd while isDrawing:
\* setIsDrawing(false); setHasStrokes(true);
\* onSignatureChange(canvasRef.current.toDataURL('image/png')).
endStroke ==
    /\ isDrawing
    /\ isDrawing' = FALSE
    /\ hasStrokes' = TRUE
    /\ padReported' = toDataURL(padInk)
    /\ UNCHANGED <<padInk, points, sessionVars, printVars>>

\* The "Torles" button, rendered while hasStrokes: clearRect,
\* setHasStrokes(false), pointsRef.current = [], onSignatureChange(null).
clearCanvas ==
    /\ hasStrokes
    /\ padInk' = 0
    /\ hasStrokes' = FALSE
    /\ points' = 0
    /\ padReported' = ReportedNull
    /\ UNCHANGED <<isDrawing, sessionVars, printVars>>

\* window 'resize' (a rotated phone, a resized window): the listener sets
\* canvas.width and canvas.height, which resets the bitmap to transparent
\* black, and sets the context up again; no state is set and nothing is
\* reported.
resize ==
    /\ padInk' = 0
    /\ UNCHANGED <<isDrawing, hasStrokes, points, padReported, sessionVars,
                   printVars>>


\* ------------------------------- ParentalAbsenceForm: fields and download
\* The other state of the page, which the form's handlers leave alone.
restVars == <<showQRModal, modalVars, peerVars, clientVars, linkVars, padVars>>

\* onChange={(e) => setChildName(e.target.value)}
setChildName(v) ==
    /\ childName' = v
    /\ UNCHANGED <<fromDate, toDate, selectedSignature, customSignatureName,
                   drawnSignature, isGenerating, showToast, hasAttemptedSubmit,
                   shakeButton, shakeTimers, fontCache, pdfSaved, printStage,
                   printSig, restVars>>

\* onChange={(e) => setFromDate(e.target.value)}
setFromDate(v) ==
    /\ fromDate' = v
    /\ UNCHANGED <<childName, toDate, selectedSignature, customSignatureName,
                   drawnSignature, isGenerating, showToast, hasAttemptedSubmit,
                   shakeButton, shakeTimers, fontCache, pdfSaved, printStage,
                   printSig, restVars>>

\* onChange={(e) => setToDate(e.target.value)}
setToDate(v) ==
    /\ toDate' = v
    /\ UNCHANGED <<childName, fromDate, selectedSignature, customSignatureName,
                   drawnSignature, isGenerating, showToast, hasAttemptedSubmit,
                   shakeButton, shakeTimers, fontCache, pdfSaved, printStage,
                   printSig, restVars>>

\* onClick={() => setSelectedSignature(idx)}, ('custom'), ('drawn')
setSelectedSignature(v) ==
    /\ selectedSignature' = v
    /\ UNCHANGED <<childName, fromDate, toDate, customSignatureName,
                   drawnSignature, isGenerating, showToast, hasAttemptedSubmit,
                   shakeButton, shakeTimers, fontCache, pdfSaved, printStage,
                   printSig, restVars>>

\* onChange={(e) => setCustomSignatureName(e.target.value)} of the input
\* rendered while selectedSignature === 'custom'.
setCustomSignatureName(v) ==
    /\ selectedSignature = "custom"
    /\ customSignatureName' = v
    /\ UNCHANGED <<childName, fromDate, toDate, selectedSignature,
                   drawnSignature, isGenerating, showToast, hasAttemptedSubmit,
                   shakeButton, shakeTimers, fontCache, pdfSaved, printStage,
                   printSig, restVars>>

\* onSignatureChange={(dataUrl) => setDrawnSignature(dataUrl)} of the pad
\* rendered while selectedSignature === 'drawn', and the "Ujra" button's
\* setDrawnSignature(null).
setDrawnSignature(v) ==
    /\ selectedSignature = "drawn"
    /\ drawnSignature' = v
    /\ UNCHANGED <<fieldVars, isGenerating, showToast, hasAttemptedSubmit,
                   shakeButton, shakeTimers, fontCache, pdfSaved, printStage,
                   printSig, restVars>>

\* const isFormComplete = childName && fromDate && toDate &&
\*   selectedSignature !== null &&
\*   (selectedSignature !== 'custom' || customSignatureName.trim()) &&
\*   (selectedSignature !== 'drawn' || drawnSignature);
isFormComplete ==
    /\ Truthy(childName)
    /\ Truthy(fromDate)
    /\ Truthy(toDate)
    /\ selectedSignature # Null
    /\ selectedSignature # "custom" \/ Truthy(trim(customSignatureName))
    /\ selectedSignature # "drawn" \/ Truthy(drawnSignature)


\* handlePrint without its validation gate.
handlePrintNoGate ==
    /\ ~isGenerating
    /\ isGenerating' = TRUE
    /\ printStage' = "fonts"
    /\ printSig' = selectedSignature
    /\ UNCHANGED <<fieldVars, drawnSignature, showToast, hasAttemptedSubmit,
                   shakeButton, shakeTimers, fontCache, pdfSaved, restVars>>

\* onClick={handlePrint} of a download button (disabled={isGenerating}), up
\* to its first await.  On an incomplete form: setHasAttemptedSubmit(true);
\* setShakeButton(true); setTimeout(() => setShakeButton(false), 600);
\* scrollToFirstError(); return.  Otherwise setIsGenerating(true) and
\* await loadFonts(doc); the handler goes on with the values of this render.
handlePrint ==
    /\ ~isGenerating
    /\ IF ~isFormComplete
       THEN /\ shakeTimers < MaxShake
            /\ hasAttemptedSubmit' = TRUE
            /\ shakeButton' = TRUE
            /\ shakeTimers' = shakeTimers + 1
            /\ UNCHANGED <<isGenerating, printStage, printSig>>
       ELSE /\ isGenerating' = TRUE
            /\ printStage' = "fonts"
            /\ printSig' = selectedSignature
            /\ UNCHANGED <<hasAttemptedSubmit, shakeButton, shakeTimers>>
    /\ UNCHANGED <<fieldVars, drawnSignature, showToast, fontCache, pdfSaved,
                   restVars>>

\* The timer of a refused download fires: setShakeButton(false).
ShakeTimerFires ==
    /\ shakeTimers > 0
    /\ shakeTimers' = shakeTimers - 1
    /\ shakeButton' = FALSE
    /\ UNCHANGED <<fieldVars, drawnSignature, isGenerating, showToast,
                   hasAttemptedSubmit, fontCache, pdfSaved, printStage,
                   printSig, restVars>>

\* The catch block alone, with no finally { setIsGenerating(false); }.
loadFontsSettledNoFinally(ok) ==
    /\ printStage = "fonts"
    /\ fontCache => ok
    /\ IF ok
       THEN /\ fontCache' = TRUE
            /\ printStage' = "signature"
            /\ UNCHANGED <<isGenerating, printSig>>
       ELSE /\ printStage' = "idle"
            /\ printSig' = Null
            /\ UNCHANGED <<fontCache, isGenerating>>
    /\ UNCHANGED <<fieldVars, drawnSignature, showToast, hasAttemptedSubmit,
                   shakeButton, shakeTimers, pdfSaved, restVars>>

\* await loadFonts(doc) settles.  With the cache set it returns without a
\* fetch; otherwise the two fetches resolve (the cache is set) or one of
\* them rejects.  Resolved: the text is laid out and, selectedSignature
\* being non-null, renderSignatureToImage is awaited.  Rejected: catch
\* (console.error, alert), finally setIsGenerating(false).
loadFontsSettled(ok) ==
    /\ printStage = "fonts"
    /\ fontCache => ok
    /\ IF ok
       THEN /\ fontCache' = TRUE
            /\ printStage' = "signature"
            /\ UNCHANGED <<isGenerating, printSig>>
       ELSE /\ printStage' = "idle"
            /\ printSig' = Null
            /\ isGenerating' = FALSE
            /\ UNCHANGED fontCache
    /\ UNCHANGED <<fieldVars, drawnSignature, showToast, hasAttemptedSubmit,
                   shakeButton, shakeTimers, pdfSaved, restVars>>

\* await renderSignatureToImage(...) settles.  A drawn or a typed signature
\* always resolves with a data URL; a gallery signature resolves when its
\* SVG loads and rejects when it does not.  Resolved: the image's load is
\* awaited.  Rejected: the inner catch (console.warn), then
\* doc.save('szuloi-igazolas.pdf'); setShowToast(true); and finally
\* setIsGenerating(false).
renderSignatureToImageSettled(ok) ==
    /\ printStage = "signature"
    /\ printSig \in {"custom", "drawn"} => ok
    /\ IF ok
       THEN /\ printStage' = "image"
            /\ UNCHANGED <<isGenerating, showToast, pdfSaved, printSig>>
       ELSE /\ pdfSaved' = TRUE
            /\ showToast' = TRUE
            /\ isGenerating' = FALSE
            /\ printStage' = "idle"
            /\ printSig' = Null
    /\ UNCHANGED <<fieldVars, drawnSignature, hasAttemptedSubmit, shakeButton,
                   shakeTimers, fontCache, restVars>>

\* The image of the signature loads or fails to (the promise resolves
\* either way); doc.addImage embeds it or throws into the inner catch; then
\* doc.save('szuloi-igazolas.pdf'); setShowToast(true); and finally
\* setIsGenerating(false).
signatureImageSettled ==
    /\ printStage = "image"
    /\ pdfSaved' = TRUE
    /\ showToast' = TRUE
    /\ isGenerating' = FALSE
    /\ printStage' = "idle"
    /\ printSig' = Null
    /\ UNCHANGED <<fieldVars, drawnSignature, hasAttemptedSubmit, shakeButton,
                   shakeTimers, fontCache, restVars>>

\* SuccessToast's setTimeout(onDone, 3000) fires: setShowToast(false).
ToastDone ==
    /\ showToast
    /\ showToast' = FALSE
    /\ UNCHANGED <<fieldVars, drawnSignature, isGenerating, hasAttemptedSubmit,
                   shakeButton, shakeTimers, fontCache, pdfSaved, printStage,
                   printSig, restVars>>


\* ------------------------------------------------------ specification
Next ==
    \/ OpenQRModal
    \/ RedoSignature
    \/ ParentRerender
    \/ CloseModal
    \/ HostUnmount
    \/ \E id \in ServerIds : HostPeerOnOpen(id)
    \/ \E origin \in {"client", "other"} : HostPeerOnConnection(origin)
    \/ \E i \in 1..MaxConns, data \in Payloads : HostConnOnData(i, data)
    \/ \E after \in {"destroyed", "disconnected", "open"} : HostPeerOnError(after)
    \/ DestroyTimerFires
    \/ StaleTimerFires
    \/ \E loc \in Locations : ClientOpenUrl(loc)
    \/ ClientPeerOnOpen
    \/ ClientConnOnOpen
    \/ \E closes \in BOOLEAN : ClientConnOnError(closes)
    \/ ClientConnOnClose
    \/ \E fatal \in BOOLEAN : ClientPeerOnError(fatal)
    \/ \E v \in Images \cup {Null} : PadChange(v)
    \/ SendSignature
    \/ SentTimerFires

Spec == Init /\ [][Next]_vars

\* The host's side alone, against remote peers that connect and send
\* whatever they like, with the browser's guarantee that a timer that was
\* set fires: setTimeout(() => { peer.destroy(); }, 500) is not cancelled
\* by anything in the code.  Nothing else is assumed to happen: the user
\* may never act, the transport may stay silent, and the commit that
\* unmounts the modal is not relied on.
NextHost ==
    \/ OpenQRModal
    \/ RedoSignature
    \/ ParentRerender
    \/ CloseModal
    \/ HostUnmount
    \/ \E id \in ServerIds : HostPeerOnOpen(id)
    \/ HostPeerOnConnection("other")
    \/ \E i \in 1..MaxConns, data \in Payloads : HostConnOnData(i, data)
    \/ \E after \in {"destroyed", "disconnected", "open"} : HostPeerOnError(after)
    \/ DestroyTimerFires
    \/ StaleTimerFires

SpecHostFair == Init /\ [][NextHost]_vars /\ WF_vars(DestroyTimerFires)

\* The phone's side of the bootstrap, for every id the server may hand
\* out: the modal shows the QR code of an open endpoint, the phone opens
\* the URL, registers, dials, draws and sends.
InitUrl ==
    /\ showQRModal = TRUE
    /\ drawnSignature = Null
    /\ mounted = TRUE
    /\ status = "waiting"
    /\ peerId \in {Some(id) : id \in SessionIds}
    /\ error = Null
    /\ sigCalls = 0
    /\ peerState = "open"
    /\ conns = <<>>
    /\ destroyCalls = 0
    /\ timers = 0
    /\ staleTimers = 0
    /\ peersCreated = 1
    /\ hash = None
    /\ route = [page |-> "main", peerId |-> None]
    /\ cStatus = "connecting"
    /\ signatureDataUrl = Null
    /\ cPeerState = "none"
    /\ connRef = Null
    /\ cTimers = 0
    /\ cEnded = FALSE
    /\ cLink = 0
    /\ wire = <<>>
    /\ InitPad
    /\ InitForm

NextUrl ==
    \/ \E loc \in Locations : ClientOpenUrl(loc)
    \/ ClientPeerOnOpen
    \/ HostPeerOnConnection("client")
    \/ ClientConnOnOpen
    \/ \E v \in Images \cup {Null} : PadChange(v)
    \/ SendSignature
    \/ SentTimerFires

SpecUrl == InitUrl /\ [][NextUrl]_vars

\* The signing page's life on the phone, against a modal that shows the QR
\* code of the open endpoint "a": the tab is opened at any hash and moved
\* between hashes, the host takes its connections and its payloads, fails
\* or is closed.
InitClient ==
    /\ showQRModal = TRUE
    /\ drawnSignature = Null
    /\ mounted = TRUE
    /\ status = "waiting"
    /\ peerId = Some(<<"a">>)
    /\ error = Null
    /\ sigCalls = 0
    /\ peerState = "open"
    /\ conns = <<>>
    /\ destroyCalls = 0
    /\ timers = 0
    /\ staleTimers = 0
    /\ peersCreated = 1
    /\ hash = None
    /\ route = [page |-> "main", peerId |-> None]
    /\ cStatus = "connecting"
    /\ signatureDataUrl = Null
    /\ cPeerState = "none"
    /\ connRef = Null
    /\ cTimers = 0
    /\ cEnded = FALSE
    /\ cLink = 0
    /\ wire = <<>>
    /\ InitPad
    /\ InitForm

NextClient ==
    \/ \E h \in EntryHashes : ClientOpen(h)
    \/ \E h \in EntryHashes : ClientHashChange(h)
    \/ ClientPeerOnOpen
    \/ ClientConnOnOpen
    \/ \E closes \in BOOLEAN : ClientConnOnError(closes)
    \/ ClientConnOnClose
    \/ \E fatal \in BOOLEAN : ClientPeerOnError(fatal)
    \/ \E v \in Images \cup {Null} : PadChange(v)
    \/ SendSignature
    \/ SentTimerFires
    \/ HostPeerOnConnection("client")
    \/ \E i \in 1..MaxConns, data \in Payloads : HostConnOnData(i, data)
    \/ \E after \in {"destroyed", "disconnected", "open"} : HostPeerOnError(after)
    \/ DestroyTimerFires
    \/ HostUnmount
    \/ CloseModal

SpecClient == InitClient /\ [][NextClient]_vars

\* A mounted SignaturePad under the pointer, the clear button and window
\* resizes.
NextPad ==
    \/ startStroke
    \/ draw
    \/ endStroke
    \/ clearCanvas
    \/ resize

SpecPad == Init /\ [][NextPad]_vars

\* The form under its user: the fields are edited, a download button is
\* clicked, the timers fire.  The browser settles what handlePrint awaits:
\* a fetch resolves or rejects, an image loads or fails to.
NextPrint ==
    \/ \E v \in Names : setChildName(v)
    \/ \E v \in Dates : setFromDate(v)
    \/ \E v \in Dates : setToDate(v)
    \/ \E v \in Selections \ {Null} : setSelectedSignature(v)
    \/ \E v \in Names : setCustomSignatureName(v)
    \/ \E v \in Images \cup {Null} : setDrawnSignature(v)
    \/ handlePrint
    \/ ShakeTimerFires
    \/ \E ok \in BOOLEAN : loadFontsSettled(ok)
    \/ \E ok \in BOOLEAN : renderSignatureToImageSettled(ok)
    \/ signatureImageSettled
    \/ ToastDone

SpecPrintFair ==
    /\ Init
    /\ [][NextPrint]_vars
    /\ WF_vars(\E ok \in BOOLEAN : loadFontsSettled(ok))
    /\ WF_vars(\E ok \in BOOLEAN : renderSignatureToImageSettled(ok))
    /\ WF_vars(signatureImageSettled)

\* ------------------------------------------------------------- claims
\* The QR code is on screen: status === 'waiting' && signingUrl.
UrlRendered ==
    mounted /\ status = "waiting" /\ \E loc \in Locations : signingUrl(loc, peerId) # None

Rank(st) ==
    CASE st = "connecting" -> 0
      [] st = "waiting" -> 1
      [] st = "connected" -> 2
      [] st = "received" -> 3

\* C1: a mounted modal invokes onSignature at most once, whatever
\* connections and data events reach it.
C1_AtMostOneSignature == sigCalls <= 1

\* C2: the payload the signing page sends carries the image it captured
\* under the names the host reads, and when the host gets it on the
\* connection of the page that dialled its id, onSignature is invoked with
\* exactly that image and the status becomes received.
C2_HappyPath ==
    [][/\ (SendSignature /\ wire' # wire) =>
              /\ IsSignature(wire'[Len(wire')])
              /\ wire'[Len(wire')].dataUrl = signatureDataUrl
       /\ (cLink > 0 /\ wire # <<>> /\ HostConnOnData(cLink, Head(wire))) =>
              /\ Head(wire).dataUrl \in Images
              /\ status' = "received"
              /\ drawnSignature' = Head(wire).dataUrl
              /\ sigCalls' = sigCalls + 1]_vars

\* The signing page sent its image on the only connection the host has,
\* and the host has taken it.
C2_Witness ==
    /\ mounted
    /\ status = "received"
    /\ conns = <<"client">>
    /\ sigCalls = 1
    /\ cStatus \in {"sending", "sent"}
    /\ drawnSignature = signatureDataUrl
    /\ route.peerId = peerId

\* C3: for every id the host's endpoint may get, the route parsed from the
\* hash of the signing URL the host builds is the sign page with that id,
\* wherever the host page lives; the phone that opened the URL targets it.
C3_UrlRoundTrip ==
    /\ \A loc \in Locations :
           peerId # None =>
               parseHash(HashOf(signingUrl(loc, peerId)[1])) =
                   [page |-> "sign", peerId |-> peerId]
    /\ cPeerState # "none" => route = [page |-> "sign", peerId |-> peerId]

\* The phone has opened the URL of an id of full length holding a "-",
\* and the host has taken its connection.
C3_Witness ==
    /\ peerId # None
    /\ Len(peerId[1]) >= 2
    /\ \E i \in 1..Len(peerId[1]) : peerId[1][i] = "-"
    /\ route = [page |-> "sign", peerId |-> peerId]
    /\ cLink > 0

\* C4: while the modal is mounted its status never moves back along
\* connecting, waiting, connected, received.
C4_StatusOnlyForward ==
    [][(mounted /\ mounted') => Rank(status') >= Rank(status)]_vars

\* C5: data on a second or later inbound connection changes neither the
\* status nor the form and never invokes onSignature.
C5_OnlyFirstConnectionWired ==
    [][\A i \in 2..MaxConns, data \in Payloads :
           HostConnOnData(i, data) =>
               UNCHANGED <<status, sigCalls, drawnSignature, showQRModal>>]_vars

\* C6: once a transport error has been reported to the mounted modal, its
\* status no longer changes and onSignature is no longer invoked.
C6_ErrorIsTerminal ==
    [][(mounted /\ mounted' /\ error # Null) =>
           (status' = status /\ sigCalls' = sigCalls)]_vars

\* C7: a message that is no well-formed signature payload (no object, the
\* type wrong or missing, the image missing), handled while the status is
\* connected, leaves the status connected, invokes no onSignature and
\* schedules no teardown: a step from connected that changes any of these
\* is not the handling of such a message.
MalformedPayload(data) ==
    \/ ~data.defined
    \/ data.type # "signature"
    \/ data.dataUrl = Undefined

C7_MalformedIgnored ==
    [][status = "connected" =>
           \/ /\ status' = "connected"
              /\ UNCHANGED <<sigCalls, timers, formVars, peerState, destroyCalls>>
           \/ ~\E i \in DOMAIN conns, data \in {p \in Payloads : MalformedPayload(p)} :
                   HostConnOnData(i, data)]_vars

\* The modal is connected to a remote peer that may send anything, and
\* its data handler can run.
C7_Witness ==
    /\ mounted
    /\ status = "connected"
    /\ \E i \in DOMAIN conns : conns[i] = "other"
    /\ peerState \in {"open", "disconnected"}
    /\ sigCalls = 0

\* C8: once an error has been reported before the endpoint ever opened,
\* the mounted modal stays in error and never shows the QR code.
C8_NoUrlAfterRegistrationFailure ==
    [][(mounted /\ mounted' /\ error # Null /\ peerId = None) =>
           (error' # Null /\ ~UrlRendered')]_vars

\* C9: after an unmount in connecting, waiting or connected, destroy has
\* been called exactly once on the endpoint, which is unregistered.
C9_UnmountDestroysOnce ==
    (~mounted /\ peerState # "none" /\ status \in {"connecting", "waiting", "connected"})
        => (destroyCalls = 1 /\ peerState = "destroyed" /\ conns = <<>>)

\* C10: the status of a mounted modal leaves waiting only for connected,
\* and only in the step that handles an inbound connection; no timer,
\* error, re-render or message moves it.
C10_WaitingUntilConnection ==
    [][(mounted /\ mounted' /\ status = "waiting" /\ status' # "waiting") =>
           /\ status' = "connected"
           /\ \E origin \in {"client", "other"} : HostPeerOnConnection(origin)]_vars

\* The modal is still waiting, with no connection, after its effect has run
\* again for a re-render of the form.
C10_Witness ==
    /\ mounted
    /\ status = "waiting"
    /\ conns = <<>>
    /\ peerState = "registering"

\* A MobileSignPage is mounted before and after the step.
PageStays == route.page = "sign" /\ route'.page = "sign"

\* C11: while one signing page is mounted a payload is transmitted at most
\* once and only with a captured image: a transmission happens with the
\* status ready and a non-null image, on a page that has not yet shown
\* sending, sent or error.
C11_SentOnceWithImage ==
    [][Len(wire') > Len(wire) =>
           /\ cStatus = "ready"
           /\ Truthy(signatureDataUrl)
           /\ ~cEnded]_vars

\* C12: an error of the page's endpoint or of its connection sets the
\* status to error, and a mounted page whose status is error keeps it.
C12_ClientErrorIsTerminal ==
    [][/\ (\/ \E closes \in BOOLEAN : ClientConnOnError(closes)
           \/ \E fatal \in BOOLEAN : ClientPeerOnError(fatal)) => cStatus' = "error"
       /\ (PageStays /\ cStatus = "error") => cStatus' = "error"]_vars

\* C13: the captured image of a mounted page changes only while its
\* status is ready.
C13_PadOnlyInReady ==
    [][(PageStays /\ signatureDataUrl' # signatureDataUrl) =>
           cStatus = "ready"]_vars

\* C13, amended: the captured image of a mounted page changes only while
\* its status is ready or sending, the two statuses the drawing surface is
\* rendered in; in connecting, sent and error it does not change.
C13_PadOnlyInReadyOrSending ==
    [][(PageStays /\ signatureDataUrl' # signatureDataUrl) =>
           cStatus \in {"ready", "sending"}]_vars

\* The page is sending one image and holds another: the drawing was
\* changed after the submit button was pressed.
C13_Witness ==
    /\ route.page = "sign"
    /\ cStatus = "sending"
    /\ wire # <<>>
    /\ Truthy(signatureDataUrl)
    /\ wire[1].dataUrl # signatureDataUrl

\* C14: when the host's endpoint is torn down under a page whose status
\* is ready on an open connection, the close event the page receives sets
\* its status to error.
C14_HostGoneIsError ==
    [][(PageStays /\ cStatus = "ready" /\ ClientConnOnClose) =>
           cStatus' = "error"]_vars

\* A hash of the sign route whose session id is missing or is no id the
\* signaling server hands out.
BadSignHash(h) ==
    /\ StartsWith(h, SignPrefix)
    /\ LET id == SubSeq(h, Len(SignPrefix) + 1, Len(h))
       IN  id = <<>> \/ \E k \in 1..Len(id) : id[k] \notin IdChars

\* C15: a tab on a sign route without a session id, or with a malformed
\* one, shows the signing page on its way to error or in it: never ready,
\* sending or sent, and never another page.
C15_BadIdEndsInError ==
    (hash # None /\ BadSignHash(hash[1])) =>
        (route.page = "sign" /\ cStatus \in {"connecting", "error"})

\* C16: closing the modal from the backdrop or the close button, in any
\* status, destroys the endpoint with its connections in the same step,
\* and while no modal is mounted no signature is handed to the form: no
\* data handler accepts a payload and the drawn signature is at most
\* cleared.
C16_CancelDestroysAndSilences ==
    [][/\ CloseModal =>
              /\ peerState' = "destroyed"
              /\ conns' = <<>>
              /\ destroyCalls' = destroyCalls + 1
       /\ ~mounted =>
              /\ drawnSignature' \in {drawnSignature, Null}
              /\ ~\E i \in DOMAIN conns, data \in Payloads :
                     IsSignature(data) /\ HostConnOnData(i, data)]_vars

\* The modal was closed while the signing page was dialling its endpoint:
\* the endpoint is destroyed, the page is left without its connection.
C16_Witness ==
    /\ ~mounted
    /\ ~showQRModal
    /\ status = "waiting"
    /\ peerState = "destroyed"
    /\ destroyCalls = 1
    /\ connRef = "dialing"
    /\ route.peerId = peerId
    /\ sigCalls = 0

\* C17: a step that unmounts the signing page, whatever its status,
\* leaves the page's endpoint destroyed and its connection closed.
C17_ClientUnmountDestroys ==
    [][(route.page = "sign" /\ route'.page = "main") =>
           /\ cPeerState' = "destroyed"
           /\ connRef' \notin {"dialing", "open"}
           /\ cLink' = 0]_vars

\* The page was unmounted while sending on an open connection: its
\* endpoint is destroyed and the host's end of the connection is dead.
C17_Witness ==
    /\ hash # None
    /\ route.page = "main"
    /\ cStatus = "sending"
    /\ cPeerState = "destroyed"
    /\ connRef = "closed"
    /\ conns # <<>>
    /\ peerState = "open"

\* C18: the step in which a transport error is reported to the modal
\* leaves its endpoint destroyed and without connections.
C18_ErrorTearsDown ==
    [][(\E after \in {"destroyed", "disconnected", "open"} : HostPeerOnError(after)) =>
           (peerState' = "destroyed" /\ conns' = <<>>)]_vars

\* C19: once a mounted modal has accepted a payload and is in received
\* with its endpoint registered, the endpoint is eventually destroyed.
C19_ReceivedThenDestroyed ==
    (mounted /\ status = "received" /\ peerState \in {"open", "disconnected"})
        ~> (peerState = "destroyed")

\* The teardown timer of a received signature has destroyed the endpoint
\* of a modal that is still mounted.
C19_Witness ==
    /\ mounted
    /\ status = "received"
    /\ sigCalls = 1
    /\ timers = 0
    /\ destroyCalls = 1
    /\ peerState = "destroyed"

\* C20: every step that brings a signing page to ready from another
\* status is the open handler of its outbound connection, run for a
\* connection the host's endpoint has taken and on a page whose own
\* endpoint has registered; no other event moves a page to ready.
C20_ReadyOnlyByConnOpen ==
    [][(route'.page = "sign" /\ cStatus' = "ready" /\ cStatus # "ready") =>
           /\ ClientConnOnOpen
           /\ cPeerState = "open"
           /\ cLink > 0
           /\ connRef' = "open"]_vars

\* A page that has come to ready the regular way: registered, dialled,
\* taken by the host, opened.
C20_Witness ==
    /\ route.page = "sign"
    /\ route.peerId = peerId
    /\ cStatus = "ready"
    /\ ~cEnded
    /\ cPeerState = "open"
    /\ connRef = "open"
    /\ cLink > 0
    /\ status = "connected"

\* C21: a send in ready leaves the page in sending, and a page comes to
\* sent only by the timer that the send has set, with nothing received
\* from the host: so sent is reached only through sending.
C21_SendingThenSent ==
    [][/\ SendSignature => cStatus' = "sending"
       /\ (PageStays /\ cStatus' = "sent" /\ cStatus # "sent") =>
              (SentTimerFires /\ UNCHANGED <<modalVars, peerVars, linkVars>>)]_vars

\* C22: the route parser takes exactly one path segment after the sign
\* marker: a tab whose hash has an empty segment there (#/sign/) or further
\* segments (#/sign/a/7) is not on the sign route with a session id.
C22_OneSegmentOnly ==
    hash # None =>
        LET rest == SubSeq(hash[1], Len(SignPrefix) + 1, Len(hash[1]))
        IN  (/\ StartsWith(hash[1], SignPrefix)
             /\ rest = <<>> \/ \E k \in 1..Len(rest) : rest[k] = "/") =>
                (route.page # "sign" /\ route.peerId = None)

\* C24: when the modal invokes onSignature with an image, the form's drawn
\* signature becomes that image and showQRModal becomes false; closing the
\* modal through onClose leaves the drawn signature as it was.
C24_OnSignatureSetsAndCloses ==
    [][/\ \/ sigCalls' = sigCalls
          \/ \A i \in 1..MaxConns, data \in Payloads :
                 HostConnOnData(i, data) =>
                     (drawnSignature' = data.dataUrl /\ ~showQRModal')
       /\ CloseModal => drawnSignature' = drawnSignature]_vars

C24_Witness ==
    /\ ~mounted
    /\ ~showQRModal
    /\ sigCalls = 1
    /\ drawnSignature \in Images
    /\ peerState = "destroyed"

\* C25: while the modal stays open no second endpoint is created, the
\* endpoint is not destroyed by a re-render of the form, and a session id
\* once shown in the signing URL stays the same.
C25_OneEndpointWhileOpen ==
    [][(mounted /\ mounted') =>
           /\ peersCreated' = peersCreated
           /\ ParentRerender => UNCHANGED <<peerState, destroyCalls>>
           /\ peerId # None => peerId' = peerId]_vars

\* C26: whenever the submit button is enabled (status ready, an image
\* captured), connRef.current is an open connection; the endpoint that
\* made it is the one of the current route, the earlier ones having been
\* destroyed with their connections.
C26_SendEnabledOnOpenConn ==
    (route.page = "sign" /\ cStatus = "ready" /\ Truthy(signatureDataUrl)) =>
        (connRef = "open" /\ cPeerState \in {"open", "disconnected"})

\* C27: the component never calls peer.destroy() on an endpoint it has
\* destroyed already: the unmount cleanup and the timer set on receipt do
\* not both destroy the same endpoint.
C27_NoDoubleDestroy ==
    [][destroyCalls' > destroyCalls => destroyCalls = 0]_vars

\* C23: between strokes, the value last reported through onSignatureChange
\* is the canvas's content: an image of exactly the segments now on the
\* bitmap, or null (or nothing yet) for a bitmap that holds none.
C23_ReportedIsContent ==
    ~isDrawing =>
        IF padReported.image
        THEN padReported.ink = padInk
        ELSE padInk = 0

\* C28: a release reports a non-null image and sets hasStrokes only when a
\* curve segment has been drawn since the press: a press and a release with
\* no movement between them report no image.
C28_NoImageWithoutSegment ==
    [][(endStroke /\ points = 1) =>
           (~padReported'.image /\ hasStrokes' = hasStrokes)]_vars

C30_GeneratingEnds == isGenerating ~> ~isGenerating

C30_Witness ==
    /\ ~isGenerating
    /\ printStage = "idle"
    /\ pdfSaved
    /\ showToast
    /\ fontCache
    /\ selectedSignature = "0"

=============================================================================
